---- MODULE Spec2Model ----
(***************************************************************************)
(* Model of the analysis scripts of lf-game-theory (src/analysis):         *)
(*   descriptive.py  per-condition summaries of the decision table         *)
(*   inference.py    hypothesis tests on the decision table                *)
(*   figures.py      figure generation entry point                         *)
(*   visualize.py    wealth-dynamics figures entry point                   *)
(*                                                                         *)
(* A decision table (pandas DataFrame) is a sequence of records.  Numbers  *)
(* are exact rationals extended with NaN and +/-inf, the values the        *)
(* floating-point columns of the code can hold; a square root that is not  *)
(* rational is kept symbolically (kind "sqrt").  An action string is a     *)
(* sequence of one-character strings so that startswith and the regular    *)
(* expressions of the code are computed on the characters.                 *)
(***************************************************************************)
EXTENDS Integers, Sequences, FiniteSets, TLC

VARIABLES
    script,       \* which module runs: an entry point, or "import" (library use)
    csv_path,     \* the input path given on the command line ("-": none taken)
    pc,           \* position of the running script
    exists,       \* the set of input paths that exist on disk
    outdir,       \* TRUE once the script has created its output directory
    loaded,       \* the input paths read so far
    terminal,     \* what has been written to stdout and stderr, in order
    exit_status,  \* the process exit status, -1 while it runs
    df,           \* the loaded decision table
    call,         \* the analysis function called last, with its game_type argument
    work,         \* the working copy that function derived (rows plus derived column)
    result,       \* what that function returned
    raised,       \* the exception that call propagated, or "none"
    libcalls,     \* the scipy.stats functions that call invoked
    history       \* history variable: the earlier calls of one watched function

\* the process around the analysis functions
process == <<script, csv_path, pc, exists, outdir, loaded, terminal, exit_status>>

vars == <<process, df, call, work, result, raised, libcalls, history>>

(***************************************************************************)
(* Bounds of the model.                                                    *)
(***************************************************************************)
MaxRowsAgg == 2

MaxRowsPD == 3

MaxRowsCond == 3

MaxRowsModel == 4

(***************************************************************************)
(* Extended rational numbers.                                              *)
(***************************************************************************)
RECURSIVE GCD(_, _)
GCD(a, b) == IF b = 0 THEN a ELSE GCD(b, a % b)

Abs(x) == IF x < 0 THEN -x ELSE x

Sign(x) == IF x < 0 THEN -1 ELSE IF x = 0 THEN 0 ELSE 1

NaN == [k |-> "nan", n |-> 0, d |-> 1]

PosInf == [k |-> "inf", n |-> 1, d |-> 1]

NegInf == [k |-> "inf", n |-> -1, d |-> 1]

\* n/d in lowest terms with a positive denominator
Num(n, d) ==
    LET s == IF d < 0 THEN -1 ELSE 1
        g == GCD(Abs(n), Abs(d))
    IN  [k |-> "num", n |-> (s * n) \div g, d |-> (s * d) \div g]

Rat(i) == Num(i, 1)

IsNaN(x) == x.k = "nan"

IsNum(x) == x.k = "num"

RAdd(x, y) ==
    IF IsNum(x) /\ IsNum(y)
    THEN LET g == GCD(x.d, y.d)
             l == (x.d \div g) * y.d
         IN  Num(x.n * (l \div x.d) + y.n * (l \div y.d), l)
    ELSE IF IsNaN(x) \/ IsNaN(y) THEN NaN
    ELSE IF x.k = "inf" /\ y.k = "inf" /\ x.n # y.n THEN NaN
    ELSE IF x.k = "inf" THEN x ELSE y

RNeg(x) == IF IsNaN(x) THEN NaN ELSE [x EXCEPT !.n = -x.n]

RSub(x, y) == RAdd(x, RNeg(y))

RMul(x, y) ==
    IF IsNum(x) /\ IsNum(y)
    THEN LET g1 == GCD(Abs(x.n), y.d)
             g2 == GCD(Abs(y.n), x.d)
         IN  Num((x.n \div g1) * (y.n \div g2), (x.d \div g2) * (y.d \div g1))
    ELSE IF IsNaN(x) \/ IsNaN(y) THEN NaN
    ELSE IF x.n = 0 \/ y.n = 0 THEN NaN
    ELSE IF Sign(x.n) * Sign(y.n) > 0 THEN PosInf ELSE NegInf

\* floating-point division: x/0 is +/-inf, 0/0 is NaN, no exception
RDiv(x, y) ==
    IF IsNum(x) /\ IsNum(y)
    THEN IF y.n = 0
         THEN IF x.n = 0 THEN NaN ELSE IF x.n > 0 THEN PosInf ELSE NegInf
         ELSE RMul(x, Num(y.d, y.n))
    ELSE IF IsNaN(x) \/ IsNaN(y) THEN NaN
    ELSE IF x.k = "inf" /\ y.k = "inf" THEN NaN
    ELSE IF x.k = "inf"
         THEN IF Sign(x.n) * (IF y.n < 0 THEN -1 ELSE 1) > 0 THEN PosInf ELSE NegInf
    ELSE Rat(0)

\* x < y as floating point compares: FALSE whenever either side is NaN
RLt(x, y) ==
    IF IsNaN(x) \/ IsNaN(y) THEN FALSE
    ELSE IF IsNum(x) /\ IsNum(y) THEN x.n * y.d < y.n * x.d
    ELSE IF x.k = "inf" /\ y.k = "inf" THEN x.n < y.n
    ELSE IF x.k = "inf" THEN x.n < 0
    ELSE y.n > 0

RGt(x, y) == RLt(y, x)

\* the square root: exact for 0, symbolic otherwise (value sqrt(n/d))
Sqrt(x) ==
    IF IsNaN(x) THEN NaN
    ELSE IF x.k = "inf" THEN (IF x.n > 0 THEN PosInf ELSE NaN)
    ELSE IF x.n < 0 THEN NaN
    ELSE IF x.n = 0 THEN Rat(0)
    ELSE [k |-> "sqrt", n |-> x.n, d |-> x.d]

\* x / sqrt(v) for rational x and v: sign(x) * sqrt(x^2 / v), kept symbolically
DivBySqrt(x, v) ==
    IF IsNaN(x) \/ IsNaN(v) THEN NaN
    ELSE IF v.n < 0 THEN NaN
    ELSE IF v.n = 0 THEN RDiv(x, Rat(0))
    ELSE IF x.n = 0 THEN Rat(0)
    ELSE LET q == RDiv(RMul(x, x), v)
         IN  [k |-> "sqrt", n |-> Sign(x.n) * q.n, d |-> q.d]

(***************************************************************************)
(* Strings: str.startswith, str.isin, and str.extract(prefix(\d+)).        *)
(***************************************************************************)
DigitChars == <<"0", "1", "2", "3", "4", "5", "6", "7", "8", "9">>

Digits == {DigitChars[i] : i \in 1..10}

DigitVal(c) == (CHOOSE i \in 1..10 : DigitChars[i] = c) - 1

RECURSIVE DigitsToInt(_)
DigitsToInt(s) ==
    IF s = <<>> THEN 0
    ELSE 10 * DigitsToInt(SubSeq(s, 1, Len(s) - 1)) + DigitVal(s[Len(s)])

\* action.startswith(prefix)
StartsWith(s, prefix) ==
    /\ Len(prefix) <= Len(s)
    /\ SubSeq(s, 1, Len(prefix)) = prefix

\* the regular expression prefix(\d+) matches at position i of s
MatchAt(s, prefix, i) ==
    /\ i + Len(prefix) <= Len(s)
    /\ SubSeq(s, i, i + Len(prefix) - 1) = prefix
    /\ s[i + Len(prefix)] \in Digits

\* action.str.extract(prefix(\d+)).astype(float): the first match anywhere in
\* the string, its greedy digit run as a number; NaN where nothing matches
Extract(s, prefix) ==
    LET starts == {i \in 1..Len(s) : MatchAt(s, prefix, i)}
    IN  IF starts = {} THEN NaN
        ELSE LET i == CHOOSE x \in starts : \A y \in starts : x <= y
                 j == i + Len(prefix)
                 e == CHOOSE x \in j..Len(s) :
                          /\ \A t \in j..x : s[t] \in Digits
                          /\ x = Len(s) \/ s[x + 1] \notin Digits
             IN  Rat(DigitsToInt(SubSeq(s, j, e)))

S_cooperate == <<"c", "o", "o", "p", "e", "r", "a", "t", "e">>

S_defect == <<"d", "e", "f", "e", "c", "t">>

S_accept == <<"a", "c", "c", "e", "p", "t">>

S_reject == <<"r", "e", "j", "e", "c", "t">>

S_offer_ == <<"o", "f", "f", "e", "r", "_">>

S_invest_ == <<"i", "n", "v", "e", "s", "t", "_">>

S_return_ == <<"r", "e", "t", "u", "r", "n", "_">>

S_contribute_ == <<"c", "o", "n", "t", "r", "i", "b", "u", "t", "e", "_">>

S_give_ == <<"g", "i", "v", "e", "_">>

\* an action no game expects
S_pass == <<"p", "a", "s", "s">>

(***************************************************************************)
(* pandas Series statistics; NaN entries are skipped (skipna).             *)
(***************************************************************************)
NonNaN(vals) == SelectSeq(vals, LAMBDA v : ~IsNaN(v))

RECURSIVE SumSeq(_)
SumSeq(vals) ==
    IF vals = <<>> THEN Rat(0) ELSE RAdd(vals[1], SumSeq(Tail(vals)))

\* Series.count(): the number of non-NaN entries
Count(vals) == Len(NonNaN(vals))

\* Series.mean(): NaN for an empty or all-NaN series
Mean(vals) ==
    LET v == NonNaN(vals)
    IN  IF v = <<>> THEN NaN ELSE RDiv(SumSeq(v), Rat(Len(v)))

\* Series.var(ddof=1): NaN with fewer than two non-NaN entries
Var(vals) ==
    LET v == NonNaN(vals)
        m == Mean(v)
        sq == [i \in 1..Len(v) |-> RMul(RSub(v[i], m), RSub(v[i], m))]
    IN  IF Len(v) < 2 THEN NaN ELSE RDiv(SumSeq(sq), Rat(Len(v) - 1))

\* Series.std()
Std(vals) == Sqrt(Var(vals))

\* Series.median()
Median(vals) ==
    LET v == SortSeq(NonNaN(vals), LAMBDA a, b : RLt(a, b))
        h == Len(v) \div 2
    IN  IF v = <<>> THEN NaN
        ELSE IF Len(v) % 2 = 1 THEN v[h + 1]
        ELSE RDiv(RAdd(v[h], v[h + 1]), Rat(2))

\* a standard error with 0 as the sentinel of a single observation
StdErr_zero(vals) ==
    IF IsNaN(Var(vals)) THEN Rat(0) ELSE Sqrt(RDiv(Var(vals), Rat(Len(vals))))

\* x.std() / np.sqrt(len(x)), as sqrt(var / len)
StdErr(vals) == Sqrt(RDiv(Var(vals), Rat(Len(vals))))

\* a boolean column as numbers
BoolVal(b) == IF b THEN Rat(1) ELSE Rat(0)

(***************************************************************************)
(* Frames.  A working copy is a sequence of [row, val]: a row of the table *)
(* with the column the function derived from it.                           *)
(***************************************************************************)
PD == "prisoners-dilemma"

Filter(frame, Test(_)) == SelectSeq(frame, Test)

\* copy the rows and add the derived column
WithColumn(frame, F(_)) == [i \in 1..Len(frame) |-> [row |-> frame[i], val |-> F(frame[i])]]

Column(wf) == [i \in 1..Len(wf) |-> wf[i].val]

Key3(r) == <<r.model_provider, r.knowledge_level, r.stake>>

Key4(r) == <<r.model_provider, r.knowledge_level, r.stake, r.round>>

\* groupby(keys): the key combinations observed in the frame
GroupKeys(wf, Key(_)) == {Key(wf[i].row) : i \in 1..Len(wf)}

\* the derived column of one group
GroupVals(wf, Key(_), key) == Column(SelectSeq(wf, LAMBDA e : Key(e.row) = key))

\* the fraction, capped at 1
Pct_capped(amount, stake) ==
    LET v == RDiv(amount, Rat(10 * stake))
    IN  IF RGt(v, Rat(1)) THEN Rat(1) ELSE v

\* the amount as a fraction of the stake itself
Pct_of_stake(amount, stake) == RDiv(amount, Rat(stake))

\* amount / (10 * stake)
Pct(amount, stake) == RDiv(amount, Rat(10 * stake))

(***************************************************************************)
(* descriptive.py: the aggregation functions.  Each returns one summary    *)
(* row per observed key combination of its working copy (groupby().agg()). *)
(***************************************************************************)
\* pd_data with its 'cooperated' column
pd_data(t) ==
    WithColumn(Filter(t, LAMBDA r : r.game_type = PD),
               LAMBDA r : BoolVal(r.action = S_cooperate))

cooperation_rates(t) ==
    LET wf == pd_data(t)
    IN  {[model_provider |-> key[1], knowledge_level |-> key[2], stake |-> key[3],
          cooperation_rate |-> Mean(GroupVals(wf, Key3, key)),
          n_decisions |-> Count(GroupVals(wf, Key3, key)),
          se |-> StdErr(GroupVals(wf, Key3, key))] : key \in GroupKeys(wf, Key3)}

\* proposer_data with its 'offer_pct' column
proposer_data(t) ==
    WithColumn(Filter(t, LAMBDA r : r.game_type = "ultimatum"
                                     /\ StartsWith(r.action, S_offer_)),
               LAMBDA r : Pct(Extract(r.action, S_offer_), r.stake))

\* responder_data with its 'accepted' column
responder_data(t) ==
    WithColumn(Filter(t, LAMBDA r : r.game_type = "ultimatum"
                                     /\ r.action \in {S_accept, S_reject}),
               LAMBDA r : BoolVal(r.action = S_accept))

ultimatum_offers(t) ==
    LET pf == proposer_data(t)
        rf == responder_data(t)
    IN  [offer_stats |->
            {[model_provider |-> key[1], knowledge_level |-> key[2], stake |-> key[3],
              mean_offer_pct |-> Mean(GroupVals(pf, Key3, key)),
              median_offer_pct |-> Median(GroupVals(pf, Key3, key)),
              std_offer_pct |-> Std(GroupVals(pf, Key3, key)),
              n |-> Count(GroupVals(pf, Key3, key))] : key \in GroupKeys(pf, Key3)},
         acceptance_stats |->
            {[model_provider |-> key[1], knowledge_level |-> key[2], stake |-> key[3],
              acceptance_rate |-> Mean(GroupVals(rf, Key3, key)),
              n |-> Count(GroupVals(rf, Key3, key))] : key \in GroupKeys(rf, Key3)}]

\* investor_data with its 'investment_pct' column
investor_data(t) ==
    WithColumn(Filter(t, LAMBDA r : r.game_type = "trust"
                                     /\ StartsWith(r.action, S_invest_)),
               LAMBDA r : Pct(Extract(r.action, S_invest_), r.stake))

trust_game_stats(t) ==
    LET wf == investor_data(t)
    IN  {[model_provider |-> key[1], knowledge_level |-> key[2], stake |-> key[3],
          mean_investment_pct |-> Mean(GroupVals(wf, Key3, key)),
          n |-> Count(GroupVals(wf, Key3, key))] : key \in GroupKeys(wf, Key3)}

\* pgg_data with its 'contribution_pct' column: no row is filtered out
pgg_data(t) ==
    WithColumn(Filter(t, LAMBDA r : r.game_type = "public-goods"),
               LAMBDA r : Pct(Extract(r.action, S_contribute_), r.stake))

public_goods_stats(t) ==
    LET wf == pgg_data(t)
    IN  {[model_provider |-> key[1], knowledge_level |-> key[2], stake |-> key[3],
          round |-> key[4],
          mean_contribution_pct |-> Mean(GroupVals(wf, Key4, key)),
          n |-> Count(GroupVals(wf, Key4, key))] : key \in GroupKeys(wf, Key4)}

\* dg_data with its 'giving_pct' column
dg_data(t) ==
    WithColumn(Filter(t, LAMBDA r : r.game_type = "dictator"
                                     /\ StartsWith(r.action, S_give_)),
               LAMBDA r : Pct(Extract(r.action, S_give_), r.stake))

\* n as the group's size ('size'), which also counts undecoded actions
dictator_stats_size(t) ==
    LET wf == dg_data(t)
    IN  {[model_provider |-> key[1], knowledge_level |-> key[2], stake |-> key[3],
          mean_giving_pct |-> Mean(GroupVals(wf, Key3, key)),
          median_giving_pct |-> Median(GroupVals(wf, Key3, key)),
          n |-> Len(GroupVals(wf, Key3, key))] : key \in GroupKeys(wf, Key3)}

dictator_stats(t) ==
    LET wf == dg_data(t)
    IN  {[model_provider |-> key[1], knowledge_level |-> key[2], stake |-> key[3],
          mean_giving_pct |-> Mean(GroupVals(wf, Key3, key)),
          median_giving_pct |-> Median(GroupVals(wf, Key3, key)),
          n |-> Count(GroupVals(wf, Key3, key))] : key \in GroupKeys(wf, Key3)}

(***************************************************************************)
(* Calling a function on the loaded table.  The functions work on copies   *)
(* (.copy()), so the table itself is left as it is.                        *)
(***************************************************************************)
NoCall == [fn |-> "none", game_type |-> "-"]

\* The history variable records, for one watched function, what its first
\* call returned, how many times it was called (counted up to 2), and whether
\* another function was called after its first call.  It watches nothing
\* unless a specification starts it with Watch.
NoHistory == [watch |-> "none", calls |-> 0, first |-> <<>>, between |-> FALSE]

Watch(fn) == [NoHistory EXCEPT !.watch = fn]

Note(h, fn, res) ==
    IF h.watch = "none" THEN h
    ELSE IF fn = h.watch
    THEN [h EXCEPT !.calls = IF @ < 2 THEN @ + 1 ELSE @,
                   !.first = IF h.calls = 0 THEN res ELSE @]
    ELSE [h EXCEPT !.between = @ \/ h.calls >= 1]

\* an aggregation call that keeps of the table only the rows it worked on
Returns_inplace(fn, game_type, wf, res) ==
    /\ pc = "loaded"
    /\ call' = [fn |-> fn, game_type |-> game_type]
    /\ work' = wf
    /\ result' = res
    /\ raised' = "none"
    /\ libcalls' = {}
    /\ history' = Note(history, fn, res)
    /\ df' = [i \in 1..Len(wf) |-> wf[i].row]
    /\ UNCHANGED process

Returns(fn, game_type, wf, res) ==
    /\ pc = "loaded"
    /\ call' = [fn |-> fn, game_type |-> game_type]
    /\ work' = wf
    /\ result' = res
    /\ raised' = "none"
    /\ libcalls' = {}
    /\ history' = Note(history, fn, res)
    /\ UNCHANGED <<process, df>>

Call_cooperation_rates ==
    Returns("cooperation_rates", "-", pd_data(df), cooperation_rates(df))

Call_ultimatum_offers ==
    Returns("ultimatum_offers", "-", proposer_data(df), ultimatum_offers(df))

Call_trust_game_stats ==
    Returns("trust_game_stats", "-", investor_data(df), trust_game_stats(df))

Call_public_goods_stats ==
    Returns("public_goods_stats", "-", pgg_data(df), public_goods_stats(df))

Call_dictator_stats ==
    Returns("dictator_stats", "-", dg_data(df), dictator_stats(df))

(***************************************************************************)
(* Decision tables.                                                        *)
(***************************************************************************)
Row(g, a, m, k, s, r, t, p) ==
    [session_id |-> 1, model_provider |-> m, game_type |-> g, knowledge_level |-> k,
     stake |-> s, round |-> r, total_rounds |-> t, action |-> a, payoff |-> p]

\* every table of at most n rows drawn from rows
Tables(rows, n) == UNION {[1..m -> rows] : m \in 0..n}

Providers == {"claude", "openai"}

\* game and action of the rows given to the aggregation functions: actions
\* the games expect, and actions they do not
GameActionsAgg ==
    {<<PD, S_cooperate>>, <<PD, S_defect>>, <<PD, S_pass>>,
     <<"ultimatum", S_offer_ \o <<"5">>>>, <<"ultimatum", S_accept>>,
     <<"trust", S_invest_ \o <<"2">>>>,
     <<"public-goods", S_contribute_ \o <<"3">>>>, <<"public-goods", S_pass>>,
     <<"dictator", S_give_ \o <<"2", "0">>>>, <<"dictator", S_give_ \o <<"x">>>>,
     <<"dictator", S_give_ \o <<"2", "x">>>>, <<"dictator", S_pass>>}

\* provider and stake of those rows: three conditions, differing in either key
ConditionsAgg == {<<"claude", 1>>, <<"claude", 10>>, <<"openai", 10>>}

RowsAgg ==
    {Row(ga[1], ga[2], c[1], "basic", c[2], 1, 1, 0) :
        ga \in GameActionsAgg, c \in ConditionsAgg}

\* a session that has imported the modules and loaded a table
Loaded(tables) ==
    /\ script = "import"
    /\ csv_path = "-"
    /\ pc = "loaded"
    /\ exists = {}
    /\ outdir = FALSE
    /\ loaded = {}
    /\ terminal = <<>>
    /\ exit_status = -1
    /\ df \in tables
    /\ call = NoCall
    /\ work = <<>>
    /\ result = <<>>
    /\ raised = "none"
    /\ libcalls = {}

InitLoaded(tables) == Loaded(tables) /\ history = NoHistory

InitAgg == InitLoaded(Tables(RowsAgg, MaxRowsAgg))

NextAgg ==
    \/ Call_cooperation_rates
    \/ Call_ultimatum_offers
    \/ Call_trust_game_stats
    \/ Call_public_goods_stats
    \/ Call_dictator_stats

SpecAgg == InitAgg /\ [][NextAgg]_vars

(***************************************************************************)
(* scipy.stats as inference.py uses it.  A p-value is kept as the          *)
(* statistic and distribution it is the tail probability of; only its      *)
(* comparison with 0.05 is computed.                                       *)
(***************************************************************************)
NaNP == [k |-> "nan", dist |-> "-", stat |-> NaN, dof |-> 0]

Prob(dist, stat, dof) == [k |-> "prob", dist |-> dist, stat |-> stat, dof |-> dof]

\* 10000 * (the 0.975 quantile of Student's t)^2, for 1..8 degrees of freedom
TCrit2 == <<1614476, 185128, 101280, 77086, 66079, 59874, 55914, 53177>>

\* 1000 * the 0.95 quantile of chi-square, for 1..8 degrees of freedom
Chi2Crit == <<3841, 5991, 7815, 9488, 11070, 12592, 14067, 15507>>

\* x > 0 as floating point compares, for a number, an infinity or a signed root
IsPositive(x) == x.k \in {"num", "inf", "sqrt"} /\ x.n > 0

\* p < 0.05 (FALSE for NaN)
Below05(p) ==
    /\ p.k = "prob"
    /\ \/ p.stat.k = "inf"
       \/ /\ p.dist = "t"
          /\ p.stat.k \in {"num", "sqrt"}
          /\ LET sq == IF p.stat.k = "sqrt" THEN Num(Abs(p.stat.n), p.stat.d)
                       ELSE RMul(p.stat, p.stat)
             IN  RGt(sq, Num(TCrit2[p.dof], 10000))
       \/ /\ p.dist = "chi2"
          /\ RGt(p.stat, Num(Chi2Crit[p.dof], 1000))

\* NOT (p >= 0.05): TRUE for NaN as well
NotAtLeast05(p) == p.k = "nan" \/ Below05(p)

\* stats.ttest_1samp(a, popmean): t = (mean - popmean) / sqrt(var / n); a
\* constant sample gives 0/0 = NaN or x/0 = +/-inf (p = 0), one observation
\* or none gives NaN; nothing is raised
ttest_1samp(a, popmean) ==
    LET n == Len(a)
        d == RSub(Mean(a), popmean)
        t == DivBySqrt(d, RDiv(Var(a), Rat(n)))
    IN  IF n = 0 \/ IsNaN(t) THEN [t |-> NaN, p |-> NaNP]
        ELSE [t |-> t, p |-> Prob("t", t, n - 1)]

RECURSIVE Flatten(_)
Flatten(groups) ==
    IF groups = <<>> THEN <<>> ELSE groups[1] \o Flatten(Tail(groups))

\* twice the average rank of value v among vals (ties share their mean rank)
Rank2(vals, v) ==
    2 * Cardinality({i \in 1..Len(vals) : RLt(vals[i], v)})
    + Cardinality({i \in 1..Len(vals) : vals[i] = v}) + 1

RECURSIVE SumInt(_)
SumInt(s) == IF s = <<>> THEN 0 ELSE s[1] + SumInt(Tail(s))

\* the sum of f[x] over x in S
RECURSIVE SumRat(_, _)
SumRat(f, S) ==
    IF S = {} THEN Rat(0)
    ELSE LET x == CHOOSE y \in S : TRUE IN RAdd(f[x], SumRat(f, S \ {x}))

\* twice the rank sum of sample g within the pooled data
RankSum2(all, g) == SumInt([i \in 1..Len(g) |-> Rank2(all, g[i])])

\* the builds of scipy differ on a Kruskal-Wallis test of identical numbers:
\* ValueError('All numbers are identical in kruskal'), or a NaN result
KruskalBuilds == {"raises", "nan"}

\* stats.kruskal(*groups) for two or more non-empty groups: NaN when a value is
\* NaN (nan_policy='propagate'), else H with the tie correction
kruskal(groups, build) ==
    LET all == Flatten(groups)
        N == Len(all)
        vals == {all[i] : i \in 1..N}
        ties(v) == Cardinality({i \in 1..N : all[i] = v})
        T == RSub(Rat(1), RDiv(SumRat([v \in vals |-> Rat(ties(v) * ties(v) * ties(v) - ties(v))], vals),
                               Rat(N * N * N - N)))
        ssq == SumRat([i \in 1..Len(groups) |->
                          Num(RankSum2(all, groups[i]) * RankSum2(all, groups[i]),
                              4 * Len(groups[i]))], 1..Len(groups))
        h == RSub(RMul(Num(12, N * (N + 1)), ssq), Rat(3 * (N + 1)))
    IN  IF \E i \in 1..N : IsNaN(all[i])
        THEN [raised |-> "none", h |-> NaN, p |-> NaNP]
        ELSE IF Cardinality(vals) = 1
        THEN [raised |-> IF build = "raises" THEN "ValueError" ELSE "none",
              h |-> NaN, p |-> NaNP]
        ELSE [raised |-> "none", h |-> RDiv(h, T),
              p |-> Prob("chi2", RDiv(h, T), Len(groups) - 1)]

\* stats.mannwhitneyu(x, y, alternative='two-sided') for non-empty samples: the
\* U statistic of x; NaN when a value is NaN
mannwhitneyu(x, y) ==
    LET all == x \o y
        u == Num(RankSum2(all, x) - Len(x) * (Len(x) + 1), 2)
    IN  IF \E i \in 1..Len(all) : IsNaN(all[i])
        THEN [u |-> NaN, p |-> NaNP]
        ELSE [u |-> u, p |-> Prob("mannwhitneyu", u, 0)]

\* stats.spearmanr(x, y): the Pearson correlation of the ranks, NaN when either
\* input is constant
spearmanr(x, y) ==
    LET n == Len(x)
        rx == [i \in 1..n |-> Rank2(x, x[i])]
        ry == [i \in 1..n |-> Rank2(y, y[i])]
        cov == n * SumInt([i \in 1..n |-> rx[i] * ry[i]]) - SumInt(rx) * SumInt(ry)
        vx == n * SumInt([i \in 1..n |-> rx[i] * rx[i]]) - SumInt(rx) * SumInt(rx)
        vy == n * SumInt([i \in 1..n |-> ry[i] * ry[i]]) - SumInt(ry) * SumInt(ry)
        rho == DivBySqrt(Rat(cov), Rat(vx * vy))
    IN  IF vx = 0 \/ vy = 0 THEN [rho |-> NaN, p |-> NaNP]
        ELSE [rho |-> rho, p |-> Prob("spearman", rho, n - 2)]

(***************************************************************************)
(* inference.py: the tests.  Each yields [work, result, raised, libcalls]:  *)
(* its local frame(s), the dict it returns (<<>> when it raises), the      *)
(* exception it lets through, and the scipy.stats functions it called.     *)
(***************************************************************************)
Ok(wf, res, libs) == [work |-> wf, result |-> res, raised |-> "none", libcalls |-> libs]

Raise(wf, exc, libs) == [work |-> wf, result |-> <<>>, raised |-> exc, libcalls |-> libs]

IsError(res) == "error" \in DOMAIN res

\* the members of a set of integers in ascending order
RECURSIVE SortedSeq(_)
SortedSeq(S) ==
    IF S = {} THEN <<>>
    ELSE LET m == CHOOSE x \in S : \A y \in S : x <= y
         IN  <<m>> \o SortedSeq(S \ {m})

\* the index pairs i < j of range(k), in the order of the nested loops
PairSeq_ordered(k) ==
    LET P == {<<i, j>> \in (1..k) \X (1..k) : i # j}
        RECURSIVE Lex(_)
        Lex(S) == IF S = {} THEN <<>>
                  ELSE LET m == CHOOSE x \in S : \A y \in S :
                                    x[1] < y[1] \/ (x[1] = y[1] /\ x[2] <= y[2])
                       IN  <<m>> \o Lex(S \ {m})
    IN  Lex(P)

PairSeq(k) == Flatten([i \in 1..k |-> [d \in 1..(k - i) |-> <<i, i + d>>]])

\* (action == 'cooperate').astype(int) on the rows of the game
cooperated_int(t) ==
    WithColumn(Filter(t, LAMBDA r : r.game_type = PD),
               LAMBDA r : BoolVal(r.action = S_cooperate))

\* significance with the comparison reversed: NOT (p >= 0.05)
pd_cooperation_test_not_ge(t) ==
    LET wf == cooperated_int(t)
        nash == ttest_1samp(Column(wf), Rat(0))
        human == ttest_1samp(Column(wf), Num(1, 2))
    IN  Ok(wf,
           [overall_cooperation_rate |-> Mean(Column(wf)),
            n |-> Len(wf),
            vs_nash |-> [t |-> nash.t, p |-> nash.p, sig |-> NotAtLeast05(nash.p)],
            vs_human_50pct |-> [t |-> human.t, p |-> human.p, sig |-> NotAtLeast05(human.p)]],
           {"ttest_1samp"})

pd_cooperation_test(t) ==
    LET wf == cooperated_int(t)
        nash == ttest_1samp(Column(wf), Rat(0))
        human == ttest_1samp(Column(wf), Num(1, 2))
    IN  Ok(wf,
           [overall_cooperation_rate |-> Mean(Column(wf)),
            n |-> Len(wf),
            vs_nash |-> [t |-> nash.t, p |-> nash.p, sig |-> Below05(nash.p)],
            vs_human_50pct |-> [t |-> human.t, p |-> human.p, sig |-> Below05(human.p)]],
           {"ttest_1samp"})

\* game_data with its 'outcome' column, for the game types stake_effect_test supports
stake_game_data(t, game_type) ==
    CASE game_type = PD ->
            WithColumn(Filter(t, LAMBDA r : r.game_type = game_type),
                       LAMBDA r : BoolVal(r.action = S_cooperate))
      [] game_type = "public-goods" ->
            WithColumn(Filter(t, LAMBDA r : r.game_type = game_type),
                       LAMBDA r : Pct(Extract(r.action, S_contribute_), r.stake))
      [] game_type = "dictator" ->
            WithColumn(Filter(t, LAMBDA r : r.game_type = game_type
                                             /\ StartsWith(r.action, S_give_)),
                       LAMBDA r : Pct(Extract(r.action, S_give_), r.stake))

StakeVals(wf, s) == Column(SelectSeq(wf, LAMBDA e : e.row.stake = s))

stake_effect_test(t, game_type, build) ==
    IF game_type \notin {PD, "public-goods", "dictator"}
    THEN Ok(<<>>, [error |-> "Unsupported game type for stake analysis"], {})
    ELSE
    LET wf == stake_game_data(t, game_type)
        stakes == SortedSeq({wf[i].row.stake : i \in 1..Len(wf)})
        k == Len(stakes)
        groups == [i \in 1..k |-> StakeVals(wf, stakes[i])]
        kw == kruskal(groups, build)
        n_total == SumInt([i \in 1..k |-> Len(groups[i])])
        eta_sq == RDiv(RAdd(RSub(kw.h, Rat(k)), Rat(1)), Rat(n_total - k))
        pairs == PairSeq(k)
        pairwise == [x \in 1..Len(pairs) |->
                        LET g1 == groups[pairs[x][1]]
                            g2 == groups[pairs[x][2]]
                            mw == mannwhitneyu(g1, g2)
                        IN  [stake_1 |-> stakes[pairs[x][1]], stake_2 |-> stakes[pairs[x][2]],
                             u_stat |-> mw.u, p_value |-> mw.p,
                             mean_1 |-> Mean(g1), mean_2 |-> Mean(g2)]]
    IN  IF k < 2 THEN Ok(wf, [error |-> "Need at least 2 stake levels"], {})
        ELSE IF kw.raised # "none" THEN Raise(wf, kw.raised, {"kruskal"})
        ELSE Ok(wf,
                [game_type |-> game_type,
                 kruskal_wallis |-> [h |-> kw.h, p |-> kw.p, sig |-> Below05(kw.p)],
                 eta_squared |-> eta_sq,
                 pairwise |-> pairwise],
                {"kruskal", "mannwhitneyu"})

\* game_data with its 'outcome' column in model_comparison_test
model_game_data(t, game_type) ==
    CASE game_type = PD ->
            WithColumn(Filter(t, LAMBDA r : r.game_type = game_type),
                       LAMBDA r : BoolVal(r.action = S_cooperate))
      [] game_type = "dictator" ->
            WithColumn(Filter(t, LAMBDA r : r.game_type = game_type
                                             /\ StartsWith(r.action, S_give_)),
                       LAMBDA r : Pct(Extract(r.action, S_give_), r.stake))
      [] OTHER ->
            WithColumn(Filter(t, LAMBDA r : r.game_type = game_type),
                       LAMBDA r : Rat(r.payoff))

ProviderVals(wf, m) == Column(SelectSeq(wf, LAMBDA e : e.row.model_provider = m))

\* np.sqrt((claude_data.std()**2 + openai_data.std()**2) / 2), as its square
pooled_var(c, o) == RDiv(RAdd(Var(c), Var(o)), Rat(2))

\* the division guarded by pooled_std != 0 instead of pooled_std > 0
cohens_d_nonzero(c, o) ==
    IF pooled_var(c, o) # Rat(0)
    THEN DivBySqrt(RSub(Mean(c), Mean(o)), pooled_var(c, o))
    ELSE Rat(0)

\* (mean difference) / pooled_std if pooled_std > 0 else 0
cohens_d(c, o) ==
    IF IsPositive(Sqrt(pooled_var(c, o)))
    THEN DivBySqrt(RSub(Mean(c), Mean(o)), pooled_var(c, o))
    ELSE Rat(0)

\* the emptiness guard on the claude group alone
model_comparison_test_one_guard(t, game_type) ==
    LET wf == model_game_data(t, game_type)
        claude_data == ProviderVals(wf, "claude")
        openai_data == ProviderVals(wf, "openai")
        locals == [claude_data |-> claude_data, openai_data |-> openai_data,
                   pooled_std |-> Sqrt(pooled_var(claude_data, openai_data))]
    IN  IF Len(claude_data) = 0
        THEN Ok(locals, [error |-> "Need data from both models"], {})
        ELSE Ok(locals,
                [game_type |-> game_type,
                 claude_mean |-> Mean(claude_data), openai_mean |-> Mean(openai_data),
                 claude_n |-> Len(claude_data), openai_n |-> Len(openai_data),
                 mann_whitney_u |-> NaN, p_value |-> NaNP,
                 cohens_d |-> cohens_d(claude_data, openai_data)],
                {"mannwhitneyu"})

\* the 'significant' entry (p_value < 0.05) of the returned dict is not
\* modelled: the Mann-Whitney p-value is not computed numerically
model_comparison_test(t, game_type) ==
    LET wf == model_game_data(t, game_type)
        claude_data == ProviderVals(wf, "claude")
        openai_data == ProviderVals(wf, "openai")
        mw == mannwhitneyu(claude_data, openai_data)
        locals == [claude_data |-> claude_data, openai_data |-> openai_data,
                   pooled_std |-> Sqrt(pooled_var(claude_data, openai_data))]
    IN  IF Len(claude_data) = 0 \/ Len(openai_data) = 0
        THEN Ok(locals, [error |-> "Need data from both models"], {})
        ELSE Ok(locals,
                [game_type |-> game_type,
                 claude_mean |-> Mean(claude_data), openai_mean |-> Mean(openai_data),
                 claude_n |-> Len(claude_data), openai_n |-> Len(openai_data),
                 mann_whitney_u |-> mw.u, p_value |-> mw.p,
                 cohens_d |-> cohens_d(claude_data, openai_data)],
                {"mannwhitneyu"})

\* game_data with its 'outcome' column in knowledge_effect_test
knowledge_game_data(t, game_type) ==
    IF game_type = PD
    THEN WithColumn(Filter(t, LAMBDA r : r.game_type = game_type),
                    LAMBDA r : BoolVal(r.action = S_cooperate))
    ELSE WithColumn(Filter(t, LAMBDA r : r.game_type = game_type),
                    LAMBDA r : Rat(r.payoff))

\* the knowledge levels in the order groupby sorts them
KnowledgeOrder == <<"basic", "expert">>

LevelVals(wf, l) == Column(SelectSeq(wf, LAMBDA e : e.row.knowledge_level = l))

knowledge_effect_test(t, game_type, build) ==
    LET wf == knowledge_game_data(t, game_type)
        levels == SelectSeq(KnowledgeOrder,
                            LAMBDA l : \E i \in 1..Len(wf) : wf[i].row.knowledge_level = l)
        groups == [i \in 1..Len(levels) |-> LevelVals(wf, levels[i])]
        kw == kruskal(groups, build)
        present == {levels[i] : i \in 1..Len(levels)}
    IN  IF Len(levels) < 2 THEN Ok(wf, [error |-> "Need at least 2 knowledge levels"], {})
        ELSE IF kw.raised # "none" THEN Raise(wf, kw.raised, {"kruskal"})
        ELSE Ok(wf,
                [game_type |-> game_type,
                 means |-> [l \in present |-> Mean(LevelVals(wf, l))],
                 ns |-> [l \in present |-> Len(LevelVals(wf, l))],
                 kruskal_wallis |-> [h |-> kw.h, p |-> kw.p, sig |-> Below05(kw.p)]],
                {"kruskal"})

\* the iterated prisoners-dilemma rows with their 'cooperated' column
iterated_pd_data(t) ==
    WithColumn(Filter(t, LAMBDA r : r.game_type = PD /\ r.total_rounds > 1),
               LAMBDA r : BoolVal(r.action = S_cooperate))

RoundVals(wf, n) == Column(SelectSeq(wf, LAMBDA e : e.row.round = n))

\* one row per round, in ascending round order
round_rates(wf) ==
    LET rounds == SortedSeq({wf[i].row.round : i \in 1..Len(wf)})
    IN  [i \in 1..Len(rounds) |->
            [round |-> rounds[i],
             cooperation_rate |-> Mean(RoundVals(wf, rounds[i])),
             n |-> Count(RoundVals(wf, rounds[i]))]]

\* the correlation computed from two rounds on
learning_analysis_two(t) ==
    LET wf == iterated_pd_data(t)
        rr == round_rates(wf)
        sp == spearmanr([i \in 1..Len(rr) |-> Rat(rr[i].round)],
                        [i \in 1..Len(rr) |-> rr[i].cooperation_rate])
        rho == IF Len(rr) > 1 THEN sp.rho ELSE Rat(0)
        p == IF Len(rr) > 1 THEN sp.p ELSE Rat(1)
    IN  Ok(wf,
           [round_rates |-> rr,
            trend |-> [spearman_rho |-> rho, p_value |-> p,
                       direction |-> IF IsPositive(rho) THEN "increasing" ELSE "decreasing"]],
           IF Len(rr) > 1 THEN {"spearmanr"} ELSE {})

learning_analysis(t) ==
    LET wf == iterated_pd_data(t)
        rr == round_rates(wf)
        sp == spearmanr([i \in 1..Len(rr) |-> Rat(rr[i].round)],
                        [i \in 1..Len(rr) |-> rr[i].cooperation_rate])
        rho == IF Len(rr) > 2 THEN sp.rho ELSE Rat(0)
        p == IF Len(rr) > 2 THEN sp.p ELSE Rat(1)
    IN  Ok(wf,
           [round_rates |-> rr,
            trend |-> [spearman_rho |-> rho, p_value |-> p,
                       direction |-> IF IsPositive(rho) THEN "increasing" ELSE "decreasing"]],
           IF Len(rr) > 2 THEN {"spearmanr"} ELSE {})

\* a test that filters the table itself to the rows of its game
Finishes_inplace(fn, game_type, o) ==
    /\ pc = "loaded"
    /\ call' = [fn |-> fn, game_type |-> game_type]
    /\ work' = o.work
    /\ result' = o.result
    /\ raised' = o.raised
    /\ libcalls' = o.libcalls
    /\ history' = Note(history, fn, o.result)
    /\ df' = SelectSeq(df, LAMBDA r : r.game_type = (IF game_type = "-" THEN PD ELSE game_type))
    /\ UNCHANGED process

\* a test called on the loaded table ends with the outcome o
Finishes(fn, game_type, o) ==
    /\ pc = "loaded"
    /\ call' = [fn |-> fn, game_type |-> game_type]
    /\ work' = o.work
    /\ result' = o.result
    /\ raised' = o.raised
    /\ libcalls' = o.libcalls
    /\ history' = Note(history, fn, o.result)
    /\ UNCHANGED <<process, df>>

Call_pd_cooperation_test ==
    Finishes("pd_cooperation_test", "-", pd_cooperation_test(df))

Call_stake_effect_test ==
    \E game_type \in {PD, "public-goods", "dictator", "trust"}, build \in KruskalBuilds :
        Finishes("stake_effect_test", game_type, stake_effect_test(df, game_type, build))

Call_model_comparison_test ==
    \E game_type \in {PD, "dictator", "trust"} :
        Finishes("model_comparison_test", game_type, model_comparison_test(df, game_type))

Call_knowledge_effect_test ==
    \E game_type \in {PD, "public-goods"}, build \in KruskalBuilds :
        Finishes("knowledge_effect_test", game_type,
                 knowledge_effect_test(df, game_type, build))

Call_learning_analysis ==
    Finishes("learning_analysis", "-", learning_analysis(df))

(***************************************************************************)
(* figures.py: fig5_trust_scatter.  What reaches the scatter call is kept; *)
(* the drawing is not.  output_dir is a directory that exists.             *)
(***************************************************************************)
\* values[:n] without a bound
Slice_all(s, n) == s

\* values[:n]
Slice(s, n) == SubSeq(s, 1, IF n < Len(s) THEN n ELSE Len(s))

\* the investments and returns frames of one model, with their derived column
trust_frames(t, model) ==
    LET model_data == Filter(t, LAMBDA r : r.game_type = "trust" /\ r.model_provider = model)
    IN  [investments |->
            WithColumn(Filter(model_data, LAMBDA r : StartsWith(r.action, S_invest_)),
                       LAMBDA r : Pct(Extract(r.action, S_invest_), r.stake)),
         returns |->
            WithColumn(Filter(model_data, LAMBDA r : StartsWith(r.action, S_return_)),
                       LAMBDA r : Extract(r.action, S_return_))]

\* the arguments of the scatter call of one model; no call when the model has
\* no investment or no return
scatter_args(f) ==
    LET ni == Len(f.investments)
        nr == Len(f.returns)
    IN  IF ni > 0 /\ nr > 0
        THEN <<[x |-> Slice(Column(f.investments), nr),
                y |-> IF nr >= ni THEN Slice(Column(f.returns), ni)
                      ELSE Column(f.returns)]>>
        ELSE <<>>

\* ax.scatter raises ValueError when x and y differ in size
fig5_trust_scatter(t) ==
    LET frames == [m \in Providers |-> trust_frames(t, m)]
        calls == [m \in Providers |-> scatter_args(frames[m])]
        sized == \A m \in Providers :
                    \A i \in 1..Len(calls[m]) : Len(calls[m][i].x) = Len(calls[m][i].y)
        libs == IF \E m \in Providers : calls[m] # <<>> THEN {"scatter"} ELSE {}
    IN  IF sized THEN Ok(frames, calls, libs) ELSE Raise(frames, "ValueError", libs)

Call_fig5_trust_scatter ==
    Finishes("fig5_trust_scatter", "trust", fig5_trust_scatter(df))

\* trust-game rows of two sessions: investments and returns of both models
MaxRowsFig == 3

RowsFig ==
    {[Row("trust", a, m, "basic", 1, 1, 1, 0) EXCEPT !.session_id = s] :
        a \in {S_invest_ \o <<"2">>, S_invest_ \o <<"4">>, S_return_ \o <<"3">>},
        m \in Providers, s \in {1, 2}}

InitFig == InitLoaded(Tables(RowsFig, MaxRowsFig))

NextFig == Call_fig5_trust_scatter

SpecFig == InitFig /\ [][NextFig]_vars

(***************************************************************************)
(* visualize.py: calculate_gini, on lists of integer balances.             *)
(***************************************************************************)
MaxAgents == 3
MaxBalance == 3

\* np.cumsum
cumsum(b) == [i \in 1..Len(b) |-> SumInt(SubSeq(b, 1, i))]

\* the formula of calculate_gini on the balances as they are given
calculate_gini_unsorted(balances) ==
    LET n == Len(balances)
        cs == cumsum(balances)
    IN  IF n = 0 \/ SumInt(balances) = 0 THEN Rat(0)
        ELSE RDiv(RSub(Rat(n + 1), RDiv(Rat(2 * SumInt(cs)), Rat(cs[n]))), Rat(n))

calculate_gini(balances) ==
    LET sorted == SortSeq(balances, LAMBDA a, b : a < b)
        n == Len(sorted)
        cs == cumsum(sorted)
    IN  IF n = 0 \/ SumInt(sorted) = 0 THEN Rat(0)
        ELSE RDiv(RSub(Rat(n + 1), RDiv(Rat(2 * SumInt(cs)), Rat(cs[n]))), Rat(n))

\* the balance columns given to calculate_gini: a debt of 1 up to MaxBalance
BalanceLists == UNION {[1..n -> -1..MaxBalance] : n \in 0..MaxAgents}

\* calculate_gini on the balances of one round, held in df
Call_calculate_gini ==
    Finishes("calculate_gini", "-", Ok(df, calculate_gini(df), {}))

InitGini == InitLoaded(BalanceLists)

NextGini == Call_calculate_gini

SpecGini == InitGini /\ [][NextGini]_vars

(***************************************************************************)
(* Tables for the tests, and the specifications that call them.            *)
(***************************************************************************)
Give20 == S_give_ \o <<"2", "0">>

\* prisoners-dilemma rows of one-shot and of three-round games (round <=
\* total_rounds), and a row of another game
RowsPD ==
    {Row(PD, a, "claude", "basic", 10, rt[1], rt[2], 0) :
        a \in {S_cooperate, S_defect, S_pass},
        rt \in {<<1, 1>>, <<1, 3>>, <<2, 3>>, <<3, 3>>}}
    \cup {Row("dictator", Give20, "claude", "basic", 10, 1, 1, 0)}

InitPD == InitLoaded(Tables(RowsPD, MaxRowsPD))

NextPD ==
    \/ Call_pd_cooperation_test
    \/ Call_learning_analysis

SpecPD == InitPD /\ [][NextPD]_vars

\* game, action and payoff of the rows given to the condition-effect tests
GameActionsCond ==
    {<<PD, S_cooperate, 3>>, <<PD, S_defect, 1>>,
     <<"public-goods", S_contribute_ \o <<"3">>, 4>>, <<"public-goods", S_pass, 0>>,
     <<"dictator", Give20, 8>>}

\* stake and knowledge level of those rows: three stakes, two levels
ConditionsCond == {<<1, "basic">>, <<10, "basic">>, <<100, "expert">>}

RowsCond ==
    {Row(ga[1], ga[2], "claude", c[2], c[1], 1, 1, ga[3]) :
        ga \in GameActionsCond, c \in ConditionsCond}

InitCond == InitLoaded(Tables(RowsCond, MaxRowsCond))

NextCond ==
    \/ Call_stake_effect_test
    \/ Call_knowledge_effect_test

SpecCond == InitCond /\ [][NextCond]_vars

\* game, action and payoff of the rows given to the model comparison
GameActionsModel ==
    {<<PD, S_cooperate, 3>>, <<PD, S_defect, 1>>,
     <<"dictator", Give20, 8>>, <<"dictator", S_give_ \o <<"x">>, 0>>,
     <<"trust", S_invest_ \o <<"2">>, 3>>}

RowsModel ==
    {Row(ga[1], ga[2], m, "basic", 1, 1, 1, ga[3]) :
        ga \in GameActionsModel, m \in Providers}

InitModel == InitLoaded(Tables(RowsModel, MaxRowsModel))

NextModel == Call_model_comparison_test

SpecModel == InitModel /\ [][NextModel]_vars

\* prisoners-dilemma rows at three stake levels, for the pairwise comparisons
\* and the effect size of stake_effect_test
MaxRowsStake == 4

RowsStake ==
    {Row(PD, a, "claude", "basic", s, 1, 1, 0) :
        a \in {S_cooperate, S_defect}, s \in {1, 10, 100}}

InitStake == InitLoaded(Tables(RowsStake, MaxRowsStake))

NextStake == Call_stake_effect_test

SpecStake == InitStake /\ [][NextStake]_vars

\* a session that calls the aggregation functions and the tests in any order,
\* any number of times, on rows of every game
MaxRowsAll == 2

RowsAll ==
    {Row(PD, S_cooperate, "claude", "basic", 1, 1, 1, 3),
     Row(PD, S_defect, "openai", "expert", 10, 1, 1, 1),
     Row("ultimatum", S_offer_ \o <<"5">>, "claude", "basic", 10, 1, 1, 5),
     Row("trust", S_invest_ \o <<"2">>, "claude", "basic", 1, 1, 1, 2),
     Row("public-goods", S_contribute_ \o <<"3">>, "openai", "basic", 1, 1, 1, 4),
     Row("dictator", Give20, "claude", "basic", 10, 1, 1, 8)}

AggregationFunctions ==
    {"cooperation_rates", "ultimatum_offers", "trust_game_stats",
     "public_goods_stats", "dictator_stats"}

InitAll ==
    /\ Loaded(Tables(RowsAll, MaxRowsAll))
    /\ \E fn \in AggregationFunctions : history = Watch(fn)

NextAll ==
    \/ Call_cooperation_rates
    \/ Call_ultimatum_offers
    \/ Call_trust_game_stats
    \/ Call_public_goods_stats
    \/ Call_dictator_stats
    \/ Call_pd_cooperation_test
    \/ Call_stake_effect_test
    \/ Call_model_comparison_test
    \/ Call_knowledge_effect_test
    \/ Call_learning_analysis

SpecAll == InitAll /\ [][NextAll]_vars

(***************************************************************************)
(* What the decoder is specified to accept.                                *)
(***************************************************************************)
\* s is prefix followed by a run of digits and nothing else
IsPattern(s, prefix) ==
    /\ StartsWith(s, prefix)
    /\ Len(s) > Len(prefix)
    /\ \A i \in (Len(prefix) + 1)..Len(s) : s[i] \in Digits

\* the integer of an action that IsPattern
PatternInt(s, prefix) == DigitsToInt(SubSeq(s, Len(prefix) + 1, Len(s)))

\* the action of row r matches a pattern its game expects
Expected(r) ==
    CASE r.game_type = PD -> r.action \in {S_cooperate, S_defect}
      [] r.game_type = "ultimatum" ->
            IsPattern(r.action, S_offer_) \/ r.action \in {S_accept, S_reject}
      [] r.game_type = "trust" ->
            IsPattern(r.action, S_invest_) \/ IsPattern(r.action, S_return_)
      [] r.game_type = "public-goods" -> IsPattern(r.action, S_contribute_)
      [] r.game_type = "dictator" -> IsPattern(r.action, S_give_)
      [] OTHER -> FALSE

\* the table without the rows whose action is not expected
Decodable(t) == SelectSeq(t, Expected)

Offer5 == S_offer_ \o <<"5">>

(***************************************************************************)
(* Claims about the aggregation functions (SpecAgg).                       *)
(***************************************************************************)
\* C1 as stated: ultimatum_offers gives a proposer record with stake 10 and
\* action "offer_5" the offer_pct 0.5
C1_OfferPctHalf ==
    call.fn = "ultimatum_offers" =>
        \A i \in 1..Len(work) :
            (work[i].row.stake = 10 /\ work[i].row.action = Offer5)
                => work[i].val = Num(1, 2)

\* C1 amended: ultimatum_offers gives a proposer record with stake 10 and action
\* "offer_5" the offer_pct 5 / (10 * 10) = 0.05, and a group made of such
\* records only has that median
C1_OfferPctTwentieth ==
    call.fn = "ultimatum_offers" =>
        /\ \A i \in 1..Len(work) :
              (work[i].row.stake = 10 /\ work[i].row.action = Offer5)
                  => work[i].val = Num(1, 20)
        /\ \A g \in result.offer_stats :
              (g.stake = 10 /\ \A i \in 1..Len(work) :
                    Key3(work[i].row) = <<g.model_provider, g.knowledge_level, g.stake>>
                        => work[i].row.action = Offer5)
                  => g.median_offer_pct = Num(1, 20)

C1_Witness ==
    /\ call.fn = "ultimatum_offers"
    /\ \E i \in 1..Len(work) : work[i].row.stake = 10 /\ work[i].row.action = Offer5
    /\ \E g \in result.offer_stats : g.stake = 10 /\ g.n >= 1

\* C2: a record whose action its game does not expect changes no aggregation
\* result (the result is that of the table without such records), and no call
\* raises
C2_UnexpectedActionsExcluded ==
    /\ raised = "none"
    /\ call.fn = "cooperation_rates" => result = cooperation_rates(Decodable(df))
    /\ call.fn = "ultimatum_offers" => result = ultimatum_offers(Decodable(df))
    /\ call.fn = "trust_game_stats" => result = trust_game_stats(Decodable(df))
    /\ call.fn = "public_goods_stats" => result = public_goods_stats(Decodable(df))
    /\ call.fn = "dictator_stats" => result = dictator_stats(Decodable(df))

\* s is give_ with a run of digits after it
IsGive(s) ==
    /\ StartsWith(s, S_give_)
    /\ Len(s) > Len(S_give_)
    /\ s[Len(S_give_) + 1] \in Digits

\* the digits of s from position i on, up to the first character that is none
RECURSIVE DigitRun(_, _)
DigitRun(s, i) ==
    IF i > Len(s) \/ s[i] \notin Digits THEN <<>>
    ELSE <<s[i]>> \o DigitRun(s, i + 1)

\* the integer of an action that IsGive
GiveInt(s) == DigitsToInt(DigitRun(s, Len(S_give_) + 1))

\* the dictator rows of the table in group key whose action is give_<integer>
GiveRows(t, key) ==
    SelectSeq(t, LAMBDA r : /\ r.game_type = "dictator"
                            /\ Key3(r) = key
                            /\ IsGive(r.action))

GivePcts(t, key) ==
    LET g == GiveRows(t, key)
    IN  [i \in 1..Len(g) |-> Num(GiveInt(g[i].action), 10 * g[i].stake)]

\* C3: in dictator_stats every group's n is the number of dictator records of
\* the group whose action is give_<integer>, and its mean and median are those
\* of the giving_pct of these records alone
C3_DictatorCountsGiveOnly ==
    call.fn = "dictator_stats" =>
        \A g \in result :
            LET key == <<g.model_provider, g.knowledge_level, g.stake>>
            IN  /\ g.n = Len(GiveRows(df, key))
                /\ g.mean_giving_pct = Mean(GivePcts(df, key))
                /\ g.median_giving_pct = Median(GivePcts(df, key))

\* a group holding a give_<integer> record and a dictator record that is not
C3_Witness ==
    /\ call.fn = "dictator_stats"
    /\ \E g \in result :
          /\ g.n = 1
          /\ \E i, j \in 1..Len(df) :
                /\ i # j
                /\ df[i].game_type = "dictator" /\ df[j].game_type = "dictator"
                /\ Key3(df[i]) = <<g.model_provider, g.knowledge_level, g.stake>>
                /\ Key3(df[j]) = Key3(df[i])
                /\ StartsWith(df[j].action, S_give_)
                /\ ~IsGive(df[j].action)

\* the summary rows of the last aggregation call, as [n, mean]
SummaryRows ==
    CASE call.fn = "cooperation_rates" ->
            {[n |-> g.n_decisions, mean |-> g.cooperation_rate] : g \in result}
      [] call.fn = "ultimatum_offers" ->
            {[n |-> g.n, mean |-> g.mean_offer_pct] : g \in result.offer_stats}
            \cup {[n |-> g.n, mean |-> g.acceptance_rate] : g \in result.acceptance_stats}
      [] call.fn = "trust_game_stats" ->
            {[n |-> g.n, mean |-> g.mean_investment_pct] : g \in result}
      [] call.fn = "public_goods_stats" ->
            {[n |-> g.n, mean |-> g.mean_contribution_pct] : g \in result}
      [] call.fn = "dictator_stats" ->
            {[n |-> g.n, mean |-> g.mean_giving_pct] : g \in result}
      [] OTHER -> {}

\* C4: no aggregation function emits a summary row whose member count is 0 or
\* whose mean is NaN
C4_NoEmptyGroupRows ==
    \A g \in SummaryRows : g.n > 0 /\ ~IsNaN(g.mean)

(***************************************************************************)
(* Claims about the tests (SpecCond, SpecModel, SpecPD).                   *)
(***************************************************************************)
\* the stake levels, resp. knowledge levels, among the rows the test keeps
LevelsPresent ==
    IF call.fn = "stake_effect_test"
    THEN {work[i].row.stake : i \in 1..Len(work)}
    ELSE {work[i].row.knowledge_level : i \in 1..Len(work)}

\* C5: stake_effect_test and knowledge_effect_test never raise; they return
\* either a test result, having found at least 2 groups, or a result with an
\* 'error' key, and they return the error result whenever fewer than 2 levels
\* are present among the rows they keep
C5_EffectTestsNeverRaise ==
    call.fn \in {"stake_effect_test", "knowledge_effect_test"} =>
        /\ raised = "none"
        /\ IsError(result) \/ Cardinality(LevelsPresent) >= 2
        /\ Cardinality(LevelsPresent) < 2 => IsError(result)

\* the rows of the table that model_comparison_test compares for provider m
Compared(m) ==
    {i \in 1..Len(df) :
        /\ df[i].game_type = call.game_type
        /\ df[i].model_provider = m
        /\ call.game_type = "dictator" => StartsWith(df[i].action, S_give_)}

\* C6: model_comparison_test returns an 'error' result without a Mann-Whitney
\* test when the claude rows or the openai rows of the game (for dictator, of
\* its give_ rows) are none; otherwise it tests and reports as claude_n and
\* openai_n the numbers of these rows, both at least 1
C6_BothProvidersOrError ==
    call.fn = "model_comparison_test" =>
        /\ raised = "none"
        /\ IF Compared("claude") = {} \/ Compared("openai") = {}
           THEN IsError(result) /\ "mannwhitneyu" \notin libcalls
           ELSE /\ ~IsError(result)
                /\ "mannwhitneyu" \in libcalls
                /\ result.claude_n = Cardinality(Compared("claude"))
                /\ result.openai_n = Cardinality(Compared("openai"))
                /\ result.claude_n >= 1 /\ result.openai_n >= 1

\* the error result caused by the openai rows alone
C6_Witness ==
    /\ call.fn = "model_comparison_test"
    /\ IsError(result)
    /\ Compared("claude") # {}
    /\ Compared("openai") = {}

\* all defined values of the sample are equal
Constant(v) == \A i, j \in 1..Len(v) : IsNaN(v[i]) \/ IsNaN(v[j]) \/ v[i] = v[j]

\* the pooled standard deviation cannot be positive: a group has fewer than
\* two defined values, or both groups are constant
Degenerate(c, o) ==
    \/ Count(c) < 2
    \/ Count(o) < 2
    \/ Constant(c) /\ Constant(o)

\* C7: in model_comparison_test with both groups non-empty, the pooled
\* standard deviation is not positive exactly when a group's deviation is
\* undefined or both groups have zero variance, and cohens_d is then exactly 0
C7_DegenerateCohensD ==
    (call.fn = "model_comparison_test" /\ ~IsError(result)) =>
        /\ Degenerate(work.claude_data, work.openai_data) <=> ~IsPositive(work.pooled_std)
        /\ Degenerate(work.claude_data, work.openai_data) => result.cohens_d = Rat(0)

\* two constant groups of two members each and equal means
C7_Witness ==
    /\ call.fn = "model_comparison_test"
    /\ ~IsError(result)
    /\ Count(work.claude_data) = 2 /\ Count(work.openai_data) = 2
    /\ Constant(work.claude_data \o work.openai_data)
    /\ result.cohens_d = Rat(0)

\* the distinct rounds of the iterated prisoners-dilemma rows of the table
IteratedRounds ==
    {df[i].round : i \in {j \in 1..Len(df) : df[j].game_type = PD /\ df[j].total_rounds > 1}}

\* C8: with fewer than 3 distinct rounds of iterated prisoners-dilemma data,
\* learning_analysis returns rho = 0, p = 1 and direction "decreasing" without
\* calling spearmanr; the direction is "increasing" only when rho > 0
C8_TrendSentinel ==
    call.fn = "learning_analysis" =>
        /\ Cardinality(IteratedRounds) < 3 =>
              /\ result.trend.spearman_rho = Rat(0)
              /\ result.trend.p_value = Rat(1)
              /\ result.trend.direction = "decreasing"
              /\ "spearmanr" \notin libcalls
        /\ result.trend.direction = "increasing" => IsPositive(result.trend.spearman_rho)
        /\ result.trend.direction \in {"increasing", "decreasing"}

\* exactly two rounds, the cooperation rate rising from the first to the second
C8_Witness ==
    /\ call.fn = "learning_analysis"
    /\ Cardinality(IteratedRounds) = 2
    /\ Len(result.round_rates) = 2
    /\ RLt(result.round_rates[1].cooperation_rate, result.round_rates[2].cooperation_rate)
    /\ result.trend.direction = "decreasing"

PDRecords == {i \in 1..Len(df) : df[i].game_type = PD}

AllDefect == PDRecords # {} /\ \A i \in PDRecords : df[i].action = S_defect

\* C9: on a table whose prisoners-dilemma records (at least one) are all
\* "defect", pd_cooperation_test does not raise and returns rate 0 and n the
\* number of these records, and the comparison with 0 is not significant; on
\* every table each of the two significance flags is true exactly when its
\* own p-value is defined and below 0.05
C9_AllDefectBenchmark ==
    call.fn = "pd_cooperation_test" =>
        /\ raised = "none"
        /\ result.vs_nash.sig = (result.vs_nash.p.k # "nan" /\ Below05(result.vs_nash.p))
        /\ result.vs_human_50pct.sig =
              (result.vs_human_50pct.p.k # "nan" /\ Below05(result.vs_human_50pct.p))
        /\ AllDefect =>
              /\ result.overall_cooperation_rate = Rat(0)
              /\ result.n = Cardinality(PDRecords)
              /\ result.vs_nash.p.k = "nan"
              /\ result.vs_nash.sig = FALSE

\* several defect records: the comparison with 0 is undefined, the one with
\* 0.5 is significant
C9_Witness ==
    /\ call.fn = "pd_cooperation_test"
    /\ AllDefect
    /\ result.n >= 2
    /\ result.vs_nash.sig = FALSE
    /\ result.vs_human_50pct.sig = TRUE

(***************************************************************************)
(* The entry points: each script run as a program.                         *)
(***************************************************************************)
MaxRowsMain == 2

\* the scripts that take the decision table's path on the command line
CsvScripts == {"descriptive", "inference", "figures"}

Scripts == CsvScripts \cup {"visualize"}

\* sys.argv[1], or the default the scripts fall back to
ArgPaths == {"experiment_data.csv", "decisions.csv"}

\* the four files visualize.load_data reads, in the order it reads them
BalancePaths ==
    <<"data/condition_a_balances.csv", "data/condition_b_balances.csv",
      "data/condition_a_transfers.csv", "data/condition_b_transfers.csv">>

\* the files a run reads
InputPaths(s, path) ==
    IF s \in CsvScripts THEN {path}
    ELSE {BalancePaths[i] : i \in DOMAIN BalancePaths}

\* one line written to a stream
Line(stream, msg, path) == [stream |-> stream, msg |-> msg, path |-> path]

\* rows of the decision file a run loads
RowsMain ==
    {Row(PD, a, m, "basic", s, 1, 1, 0) :
        a \in {S_cooperate, S_defect}, m \in Providers, s \in {1, 10}}
    \cup {Row("dictator", Give20, "claude", "basic", 10, 1, 1, 0)}

Init ==
    /\ script \in Scripts
    /\ csv_path \in (IF script \in CsvScripts THEN ArgPaths ELSE {"-"})
    /\ pc = "start"
    /\ exists \in SUBSET InputPaths(script, csv_path)
    /\ outdir = FALSE
    /\ loaded = {}
    /\ terminal = <<>>
    /\ exit_status = -1
    /\ df = <<>>
    /\ call = NoCall
    /\ work = <<>>
    /\ result = <<>>
    /\ raised = "none"
    /\ libcalls = {}
    /\ history = NoHistory

\* if not Path(csv_path).exists(): print(...); sys.exit(1)
PathMissing ==
    /\ script \in CsvScripts
    /\ pc = "start"
    /\ csv_path \notin exists
    /\ terminal' = terminal \o <<Line("stdout", "File not found", csv_path)>>
                   \o (IF script = "descriptive"
                       THEN <<Line("stdout", "Usage", "-")>> ELSE <<>>)
    /\ exit_status' = 1
    /\ pc' = "exited"
    /\ UNCHANGED <<script, csv_path, exists, outdir, loaded,
                   df, call, work, result, raised, libcalls, history>>

\* the path exists: descriptive and inference go on to load_data, figures
\* enters generate_all_figures
PathFound ==
    /\ script \in CsvScripts
    /\ pc = "start"
    /\ csv_path \in exists
    /\ pc' = IF script = "figures" THEN "generate_all_figures" ELSE "load_data"
    /\ UNCHANGED <<script, csv_path, exists, outdir, loaded, terminal, exit_status,
                   df, call, work, result, raised, libcalls, history>>

\* Path(output_dir).mkdir(exist_ok=True) in generate_all_figures
FiguresMkdir ==
    /\ script = "figures"
    /\ pc = "generate_all_figures"
    /\ outdir' = TRUE
    /\ pc' = "load_data"
    /\ UNCHANGED <<script, csv_path, exists, loaded, terminal, exit_status,
                   df, call, work, result, raised, libcalls, history>>

\* df = load_data(csv_path): pd.read_csv of a file that exists
load_data ==
    /\ script \in CsvScripts
    /\ pc = "load_data"
    /\ df' \in Tables(RowsMain, MaxRowsMain)
    /\ loaded' = loaded \cup {csv_path}
    /\ pc' = CASE script = "descriptive" -> "summary_table"
               [] script = "inference" -> "pd_cooperation_test"
               [] script = "figures" -> "figures"
    /\ UNCHANGED <<script, csv_path, exists, outdir, terminal, exit_status,
                   call, work, result, raised, libcalls, history>>

\* summary_table(df), and the end of descriptive.py
summary_table ==
    /\ script = "descriptive"
    /\ pc = "summary_table"
    /\ call' = [fn |-> "summary_table", game_type |-> "-"]
    /\ work' = <<pd_data(df), dg_data(df)>>
    /\ result' = <<cooperation_rates(df), dictator_stats(df)>>
    /\ raised' = "none"
    /\ libcalls' = {}
    /\ terminal' = terminal \o <<Line("stdout", "EXPERIMENT SUMMARY", "-"),
                                 Line("stdout", "Prisoner's Dilemma", "-"),
                                 Line("stdout", "Dictator Game", "-")>>
    /\ exit_status' = 0
    /\ pc' = "exited"
    /\ UNCHANGED <<script, csv_path, exists, outdir, loaded, df, history>>

\* one test of run_all_tests: its header is printed, the test is called with
\* outcome o, and its report is printed when report holds; an exception
\* ends the program with a traceback
TestStep(here, next, fn, game_type, o, report) ==
    /\ script = "inference"
    /\ pc = here
    /\ call' = [fn |-> fn, game_type |-> game_type]
    /\ work' = o.work
    /\ result' = o.result
    /\ raised' = o.raised
    /\ libcalls' = o.libcalls
    /\ IF o.raised # "none"
       THEN /\ terminal' = terminal \o <<Line("stdout", "header", fn),
                                         Line("stderr", o.raised, "-")>>
            /\ exit_status' = 1
            /\ pc' = "exited"
       ELSE /\ terminal' = terminal \o <<Line("stdout", "header", fn)>>
                           \o (IF report THEN <<Line("stdout", "report", fn)>>
                               ELSE <<>>)
            /\ exit_status' = IF next = "exited" THEN 0 ELSE exit_status
            /\ pc' = next
    /\ UNCHANGED <<script, csv_path, exists, outdir, loaded, df, history>>

\* a result the caller reports: one without the key 'error'
Reported(o) == o.raised = "none" /\ ~IsError(o.result)

Run_pd_cooperation_test ==
    LET o == pd_cooperation_test(df)
    IN  TestStep("pd_cooperation_test", "stake_effect_test",
                 "pd_cooperation_test", "-", o, TRUE)

Run_stake_effect_test ==
    \E build \in KruskalBuilds :
        LET o == stake_effect_test(df, PD, build)
        IN  TestStep("stake_effect_test", "model_comparison_test",
                     "stake_effect_test", PD, o, Reported(o))

Run_model_comparison_test ==
    LET o == model_comparison_test(df, PD)
    IN  TestStep("model_comparison_test", "knowledge_effect_test",
                 "model_comparison_test", PD, o, Reported(o))

Run_knowledge_effect_test ==
    \E build \in KruskalBuilds :
        LET o == knowledge_effect_test(df, PD, build)
        IN  TestStep("knowledge_effect_test", "learning_analysis",
                     "knowledge_effect_test", PD, o, Reported(o))

Run_learning_analysis ==
    LET o == learning_analysis(df)
    IN  TestStep("learning_analysis", "exited", "learning_analysis", "-", o, TRUE)

\* the six figures of generate_all_figures, and the end of figures.py; what
\* the figures draw is not part of the state, and a figure function either
\* returns or raises
DrawFigures ==
    /\ script = "figures"
    /\ pc = "figures"
    /\ \E ok \in BOOLEAN :
        /\ terminal' = terminal \o <<Line("stdout", "Generating figures", "-")>>
                       \o (IF ok THEN <<Line("stdout", "All figures saved", "-")>>
                           ELSE <<Line("stderr", "Traceback", "-")>>)
        /\ exit_status' = IF ok THEN 0 ELSE 1
    /\ pc' = "exited"
    /\ UNCHANGED <<script, csv_path, exists, outdir, loaded,
                   df, call, work, result, raised, libcalls, history>>

\* importing visualize.py: OUTPUT_DIR.mkdir(exist_ok=True) at module level
VisualizeImport ==
    /\ script = "visualize"
    /\ pc = "start"
    /\ outdir' = TRUE
    /\ pc' = "main"
    /\ UNCHANGED <<script, csv_path, exists, loaded, terminal, exit_status,
                   df, call, work, result, raised, libcalls, history>>

\* the files of BalancePaths before the first one that does not exist
RECURSIVE ReadUntilMissing(_, _)
ReadUntilMissing(paths, present) ==
    IF paths = <<>> \/ Head(paths) \notin present THEN <<>>
    ELSE <<Head(paths)>> \o ReadUntilMissing(Tail(paths), present)

\* main() of visualize.py up to the end of load_data: pd.read_csv raises
\* FileNotFoundError at the first file that does not exist, and nothing
\* catches it
VisualizeLoad ==
    /\ script = "visualize"
    /\ pc = "main"
    /\ LET read == ReadUntilMissing(BalancePaths, exists)
       IN  /\ loaded' = {read[i] : i \in DOMAIN read}
           /\ IF Len(read) = Len(BalancePaths)
              THEN /\ terminal' = terminal \o <<Line("stdout", "Loading data...", "-")>>
                   /\ pc' = "plots"
                   /\ UNCHANGED exit_status
              ELSE /\ terminal' = terminal \o
                        <<Line("stdout", "Loading data...", "-"),
                          Line("stderr", "FileNotFoundError",
                               BalancePaths[Len(read) + 1])>>
                   /\ exit_status' = 1
                   /\ pc' = "exited"
    /\ UNCHANGED <<script, csv_path, exists, outdir,
                   df, call, work, result, raised, libcalls, history>>

\* the plots and the summary of visualize.main, and the end of the script;
\* a plot function either returns or raises
VisualizePlots ==
    /\ script = "visualize"
    /\ pc = "plots"
    /\ \E ok \in BOOLEAN :
        /\ terminal' = terminal \o <<Line("stdout", "Generating figures...", "-")>>
                       \o (IF ok THEN <<Line("stdout", "Done!", "-")>>
                           ELSE <<Line("stderr", "Traceback", "-")>>)
        /\ exit_status' = IF ok THEN 0 ELSE 1
    /\ pc' = "exited"
    /\ UNCHANGED <<script, csv_path, exists, outdir, loaded,
                   df, call, work, result, raised, libcalls, history>>

Next ==
    \/ PathMissing
    \/ PathFound
    \/ FiguresMkdir
    \/ load_data
    \/ summary_table
    \/ Run_pd_cooperation_test
    \/ Run_stake_effect_test
    \/ Run_model_comparison_test
    \/ Run_knowledge_effect_test
    \/ Run_learning_analysis
    \/ DrawFigures
    \/ VisualizeImport
    \/ VisualizeLoad
    \/ VisualizePlots

Spec == Init /\ [][Next]_vars

(***************************************************************************)
(* Claims about the entry points (Spec).                                   *)
(***************************************************************************)
\* an input file of the run does not exist
MissingInputs == InputPaths(script, csv_path) \ exists

\* the terminal shows a line naming path p
Names(p) == \E i \in DOMAIN terminal : terminal[i].path = p

\* C10: when an input path of a run does not exist, nothing is loaded, no
\* analysis function is called and the output directory is not created, and
\* the run ends with a non-zero exit status after printing a line that names
\* a missing path; this holds for descriptive.py, inference.py, figures.py
\* and visualize.py.
C10_MissingInputStopsFirst ==
    MissingInputs # {} =>
        /\ outdir = FALSE
        /\ loaded = {}
        /\ call = NoCall
        /\ pc \in {"start", "exited"}
        /\ pc = "exited" =>
            /\ exit_status >= 1
            /\ \E p \in MissingInputs : Names(p)

\* the analyses of run_all_tests in the order the claim gives them
BatchOrder ==
    <<"pd_cooperation_test", "stake_effect_test", "model_comparison_test",
      "knowledge_effect_test", "learning_analysis">>

\* the analyses whose header has been printed, in the order of printing
HeadersPrinted ==
    LET h == SelectSeq(terminal, LAMBDA l : l.msg = "header")
    IN  [i \in 1..Len(h) |-> h[i].path]

\* C11: once inference.py has loaded its table, run_all_tests runs the five
\* analyses in the fixed order, no analysis raises, and the run ends with exit
\* status 0 after the learning-analysis report.
C11_BatchNeverAborts ==
    (script = "inference" /\ loaded # {}) =>
        /\ raised = "none"
        /\ Len(HeadersPrinted) <= Len(BatchOrder)
        /\ HeadersPrinted = SubSeq(BatchOrder, 1, Len(HeadersPrinted))
        /\ pc = "exited" =>
              /\ exit_status = 0
              /\ HeadersPrinted = BatchOrder
              /\ terminal[Len(terminal)] = Line("stdout", "report", "learning_analysis")

(***************************************************************************)
(* Further claims about the aggregation functions (SpecAgg).               *)
(***************************************************************************)
\* the prisoners-dilemma rows of the table in group key
PDGroup(key) == {i \in 1..Len(df) : df[i].game_type = PD /\ Key3(df[i]) = key}

\* the standard error of n >= 2 decisions of which c cooperate: the sample
\* variance of c ones and n - c zeros is c(n - c) / (n(n - 1))
BoolStdErr(c, n) == Sqrt(Num(c * (n - c), n * n * (n - 1)))

\* C13: cooperation_rates emits one row for every group of prisoners-dilemma
\* decisions, with n_decisions the size of the group; a group of one decision
\* has the standard error NaN, and a group of n >= 2 has the sample standard
\* deviation divided by sqrt(n).
C13_SingleDecisionStdErr ==
    call.fn = "cooperation_rates" =>
        /\ raised = "none"
        /\ \A i \in 1..Len(df) :
              df[i].game_type = PD =>
                  \E g \in result :
                      <<g.model_provider, g.knowledge_level, g.stake>> = Key3(df[i])
        /\ \A g \in result :
              LET grp == PDGroup(<<g.model_provider, g.knowledge_level, g.stake>>)
                  n == Cardinality(grp)
                  c == Cardinality({i \in grp : df[i].action = S_cooperate})
              IN  /\ g.n_decisions = n
                  /\ n = 1 => IsNaN(g.se)
                  /\ n >= 2 => g.se = BoolStdErr(c, n)

\* a group of a single decision, reported with n_decisions = 1 and se NaN
C13_Witness ==
    /\ call.fn = "cooperation_rates"
    /\ \E g \in result : g.n_decisions = 1 /\ IsNaN(g.se) /\ ~IsNaN(g.cooperation_rate)

\* the prefix of the actions an aggregation function decodes
DecodedPrefix ==
    CASE call.fn = "ultimatum_offers" -> S_offer_
      [] call.fn = "trust_game_stats" -> S_invest_
      [] call.fn = "public_goods_stats" -> S_contribute_
      [] call.fn = "dictator_stats" -> S_give_

\* C14: for every record with positive stake that ultimatum_offers,
\* trust_game_stats, public_goods_stats or dictator_stats decodes, the
\* normalized value is N / (10 * stake) for the digit run N that follows the
\* prefix of the action, which is not negative; a record without such a digit
\* run has no value (NaN).
C14_NormalizedValue ==
    call.fn \in {"ultimatum_offers", "trust_game_stats",
                 "public_goods_stats", "dictator_stats"} =>
        \A i \in 1..Len(work) :
            LET r == work[i].row
                v == work[i].val
                run == IF StartsWith(r.action, DecodedPrefix)
                       THEN DigitRun(r.action, Len(DecodedPrefix) + 1)
                       ELSE <<>>
            IN  r.stake > 0 =>
                    IF run = <<>> THEN IsNaN(v)
                    ELSE /\ v = Num(DigitsToInt(run), 10 * r.stake)
                         /\ IsNum(v)
                         /\ ~RLt(v, Rat(0))

\* a normalized value above 1: give_20 at stake 1 is 20 / 10 = 2
C14_Witness ==
    /\ call.fn = "dictator_stats"
    /\ \E i \in 1..Len(work) :
          /\ work[i].row.action = Give20
          /\ work[i].row.stake = 1
          /\ work[i].val = Rat(2)
          /\ RGt(work[i].val, Rat(1))

(***************************************************************************)
(* Claims about stake_effect_test's pairwise list and effect size          *)
(* (SpecStake).                                                            *)
(***************************************************************************)
\* stake_effect_test returned a test result
StakeTested ==
    call.fn = "stake_effect_test" /\ raised = "none" /\ ~IsError(result)

\* pair a comes before pair b in lexicographic order
LexBefore(a, b) ==
    a.stake_1 < b.stake_1 \/ (a.stake_1 = b.stake_1 /\ a.stake_2 < b.stake_2)

\* C12: when stake_effect_test returns a test result for k >= 2 stake levels,
\* its pairwise list has k*(k-1)/2 entries, one for every unordered pair of
\* distinct levels, each with stake_1 < stake_2, in strictly ascending
\* lexicographic order of (stake_1, stake_2).
C12_PairwiseAllPairsOnce ==
    StakeTested =>
        LET k == Cardinality(LevelsPresent)
            pw == result.pairwise
        IN  /\ k >= 2
            /\ 2 * Len(pw) = k * (k - 1)
            /\ \A i \in 1..Len(pw) :
                  /\ pw[i].stake_1 \in LevelsPresent
                  /\ pw[i].stake_2 \in LevelsPresent
                  /\ pw[i].stake_1 < pw[i].stake_2
            /\ \A i \in 1..(Len(pw) - 1) : LexBefore(pw[i], pw[i + 1])
            /\ \A a, b \in LevelsPresent :
                  a < b => \E i \in 1..Len(pw) : pw[i].stake_1 = a /\ pw[i].stake_2 = b

\* three stake levels, given in the table in descending order: three
\* comparisons
C12_Witness ==
    /\ StakeTested
    /\ Cardinality(LevelsPresent) = 3
    /\ Len(result.pairwise) = 3
    /\ df[1].stake > df[2].stake /\ df[2].stake > df[3].stake

\* C19: whenever stake_effect_test passes its guard and computes the effect
\* size (H - k + 1) / (N - k), the number N of observations exceeds the number
\* k of stake groups, so that the denominator is not zero and the effect size
\* is a number.
C19_EffectSizeDenominator ==
    StakeTested =>
        /\ Len(work) > Cardinality(LevelsPresent)
        /\ Len(work) - Cardinality(LevelsPresent) # 0
        /\ IsNum(result.eta_squared)

(***************************************************************************)
(* Claims about sequences of calls (SpecAll).                              *)
(***************************************************************************)
\* C15: no call of an aggregation function or of a test changes the loaded
\* table: its rows, columns and values after the call are those before it, and
\* the derived column is in the function's working copy only.
C15_TableUnchanged == [][df' = df]_vars

\* a test has derived its outcome column after the watched function and
\* another one were called, on a table of two rows
C15_Witness ==
    /\ call.fn = "stake_effect_test"
    /\ Len(df) = 2
    /\ Len(work) >= 1
    /\ history.calls >= 1
    /\ history.between

\* C16: a call of an aggregation function returns the group summaries its
\* first call on the table returned, whatever was called in between.
C16_RepeatedCallSameSummaries ==
    (call.fn = history.watch /\ history.calls >= 1) => result = history.first

\* the second call of cooperation_rates, after a call of another function,
\* returns a summary that is not empty
C16_Witness ==
    /\ history.watch = "cooperation_rates"
    /\ call.fn = "cooperation_rates"
    /\ history.calls = 2
    /\ history.between
    /\ result # {}

(***************************************************************************)
(* Claims about fig5_trust_scatter (SpecFig).                              *)
(***************************************************************************)
\* the scatter call of model m, when there was one
Scattered(m) == call.fn = "fig5_trust_scatter" /\ raised = "none" /\ result[m] # <<>>

\* C17: every point that fig5_trust_scatter plots pairs an investment with a
\* return of the same session: the i-th x value, which is that of the i-th
\* investment of the model, meets the y value of a return of that session.
C17_PointsPairSameSession ==
    \A m \in Providers :
        Scattered(m) =>
            \A i \in 1..Len(result[m][1].x) :
                /\ i <= Len(work[m].returns)
                /\ work[m].investments[i].row.session_id
                       = work[m].returns[i].row.session_id

\* the investment and return records of model m in the table
TrustRecords(m, prefix) ==
    {i \in 1..Len(df) : /\ df[i].game_type = "trust"
                        /\ df[i].model_provider = m
                        /\ StartsWith(df[i].action, prefix)}

\* C18: for every model, fig5_trust_scatter makes no scatter call when the
\* model has no invest_ record or no return_ record, and otherwise passes x
\* and y sequences of the same length, the smaller of the two numbers of
\* records; the call does not raise.
C18_ScatterLengths ==
    call.fn = "fig5_trust_scatter" =>
        /\ raised = "none"
        /\ \A m \in Providers :
              LET ni == Cardinality(TrustRecords(m, S_invest_))
                  nr == Cardinality(TrustRecords(m, S_return_))
                  least == IF ni < nr THEN ni ELSE nr
              IN  IF ni = 0 \/ nr = 0 THEN result[m] = <<>>
                  ELSE /\ Len(result[m]) = 1
                       /\ Len(result[m][1].x) = least
                       /\ Len(result[m][1].y) = least

\* a model with two investments and one return: one point
C18_Witness ==
    /\ Scattered("claude")
    /\ Cardinality(TrustRecords("claude", S_invest_)) = 2
    /\ Cardinality(TrustRecords("claude", S_return_)) = 1
    /\ Len(result["claude"][1].x) = 1
    /\ Len(result["claude"][1].y) = 1

(***************************************************************************)
(* Claims about calculate_gini (SpecGini).                                 *)
(***************************************************************************)
\* the permutations of 1..n
Perms(n) == {p \in [1..n -> 1..n] : \A i, j \in 1..n : p[i] = p[j] => i = j}

\* C20: calculate_gini returns 0 for an empty list and for a list whose sum is
\* 0, and 0 when all balances are equal and positive; it returns the same
\* value for every permutation of its input; for balances that are not
\* negative and have a positive sum the value lies in [0, (n-1)/n], and it is
\* (n-1)/n when one agent holds everything.
C20_GiniProperties ==
    call.fn = "calculate_gini" =>
        LET b == work
            n == Len(b)
            total == SumInt(b)
        IN  /\ raised = "none"
            /\ (n = 0 \/ total = 0) => result = Rat(0)
            /\ (n > 0 /\ b[1] > 0 /\ \A i \in 1..n : b[i] = b[1]) => result = Rat(0)
            /\ \A p \in Perms(n) : calculate_gini([i \in 1..n |-> b[p[i]]]) = result
            /\ (total > 0 /\ \A i \in 1..n : b[i] >= 0) =>
                  /\ IsNum(result)
                  /\ ~RLt(result, Rat(0))
                  /\ ~RGt(result, Num(n - 1, n))
                  /\ (\E i \in 1..n : b[i] = total) => result = Num(n - 1, n)

\* one of three agents holds everything and is not the last of the list: 2/3
C20_Witness ==
    /\ call.fn = "calculate_gini"
    /\ Len(work) = 3
    /\ work[1] = MaxBalance /\ work[2] = 0 /\ work[3] = 0
    /\ result = Num(2, 3)

====
